---- MODULE Spec2Model ----
(***************************************************************************)
(* Model of the ATR scalping bot (src/bottest.py: main, compute_atr,       *)
(* handle_trailing_and_failsafe) together with the broker it talks to, and *)
(* of the simple scalp loop (src/scalp_bot.py, src/tradingbot.py:          *)
(* scalp_cycle).                                                           *)
(*                                                                         *)
(* Money is counted in thousandths of a euro (100.00 EUR = 100000), so     *)
(* that MIN_PRICE_MOVE (0.005) and the mid of two cent quotes are whole    *)
(* numbers.  Ratios (0.995, 0.998, 1.002) are per-mille factors compared   *)
(* by cross-multiplication.  A share quantity is a fraction [n, d] = n/d   *)
(* shares, because Compound mode computes cash / ask.  Arithmetic is exact *)
(* (the binary rounding of Python floats is not modelled), except that     *)
(* round(x, 2) is modelled by Round2Set, which at an exact tie allows both *)
(* neighbours.                                                             *)
(***************************************************************************)
EXTENDS Integers, Sequences, FiniteSets, TLC

(* ---------------- configuration (src/bottest.py 225-253) --------------- *)
ATR_PERIOD == 14
MIN_ATR_EUR == 2000
SELL_ATR_K == 1
STOP_ATR_K == 1
TRAIL_ATR_K == 1
DAILY_LOSS_LIMIT == 20000
MAX_SPREAD_EUR == 200
GAP_FAILSAFE_MULT == 995
MIN_PRICE_MOVE == 5
\* denominator of the per-mille factors (0.995 = 995 / PerMille)
PerMille == 1000
\* one cent, the grid of round(x, 2)
Cent == 10

(* ---------------- bounds of the model ---------------------------------- *)
\* orders the broker accepts in one run
MaxOrders == 4
\* bar timestamps 1..MaxBarTime
MaxBarTime == 2
\* local dates 0..MaxDay
MaxDay == 1
\* orders the simple scalp loop places in one run
MaxScalpOrders == 2
\* compute_atr is applied with periods 2..MaxPeriod, to 0..period + 2 bars
MaxPeriod == 3

(* ---------------- inputs drawn by the environment ---------------------- *)
\* quotes on the cent grid (so the mid is exact): mids 103.00, 100.40 and
\* 100.495; spreads 0, exactly MAX_SPREAD_EUR, and above it
Quotes ==
    { [bid |-> 103000, ask |-> 103000],
      [bid |-> 100300, ask |-> 100500],
      [bid |-> 100250, ask |-> 100740] }
\* the quotes main reads before an entry: those, and a quote of zeros
EntryQuotes == Quotes \cup { [bid |-> 0, ask |-> 0] }
\* average fill prices: of a market order, and of a stop (a gap far below it)
MarketFills == {100000, 100395, 100400}
StopFills == {79000}
AtrValues == {1000, 2000}
CashValues == {1000, 100500}
BarCounts == {0, ATR_PERIOD, ATR_PERIOD + 2}
\* a candle [open, close] of the latest bar
Candles == { [open |-> 100000, close |-> 100400],
             [open |-> 103000, close |-> 100000] }
One == [n |-> 1, d |-> 1]
BrokerPositions == { [quantity |-> One, avgEntryPrice |-> 100000] }

\* bid, ask and last of the simple scalp loop's quotes: zero, crossed, and on
\* both bands of last = 1.000 (0.998 and 1.002)
ScalpPrices == {0, 997, 998, 1000, 1002, 1003}

Terminal == {"FILLED", "CANCELLED", "REJECTED", "EXPIRED"}
NoBar == 0
NoOrder == 0
EmptyDict == [k \in {} |-> 0]

(* ---------------- arithmetic helpers ----------------------------------- *)
\* round(num / den, 2) on the cent grid, den > 0: the nearest multiple of Cent;
\* at an exact tie either neighbour (the float's binary value decides).
Round2Set(num, den) ==
    LET g == Cent * den
        k == num \div g
        r == num - k * g
    IN  IF 2 * r < g THEN {Cent * k}
        ELSE IF 2 * r > g THEN {Cent * (k + 1)}
        ELSE {Cent * k, Cent * (k + 1)}

RECURSIVE Gcd(_, _)
Gcd(a, b) == IF b = 0 THEN a ELSE Gcd(b, a % b)
\* the quotient n / d of two amounts as a fraction in lowest terms, d > 0
Frac(n, d) == LET g == Gcd(n, d) IN [n |-> n \div g, d |-> d \div g]

Abs(x) == IF x < 0 THEN -x ELSE x

\* (px["bid"] + px["ask"]) / 2
Mid(q) == (q.bid + q.ask) \div 2

\* entries is history kept for the properties: the ids of the entry buys
VARIABLES
    MODE_BASIC, MODE_COMPOUND,
    today, orders, realized, entries,
    pc, current_day, daily_pnl, last_bar_time, df_len, bar_time, latest_bar,
    atr, pos, qty, px, est_qty, buy_id, entry_price, st,
    ret, pos2, h_entry_price, quantity, stop_price, stop_id, mid, new_stop,
    sell_id, st2, pnl, daily_pnl_ref,
    sc_pc, quote, sc_orders,
    atr_pc, df2, period, atr_ret

cfgVars == <<MODE_BASIC, MODE_COMPOUND>>
envVars == <<today, orders, realized, entries>>
mainVars == <<current_day, daily_pnl, last_bar_time, df_len, bar_time,
              latest_bar, atr, pos, qty, px, est_qty, buy_id, entry_price, st>>
hVars == <<ret, pos2, h_entry_price, quantity, stop_price, stop_id, mid,
           new_stop, sell_id, st2, pnl, daily_pnl_ref>>
scVars == <<sc_pc, quote, sc_orders>>
atrVars == <<atr_pc, df2, period, atr_ret>>
vars == <<cfgVars, envVars, pc, mainVars, hVars, scVars, atrVars>>

Zero == [n |-> 0, d |-> 1]
NoPrice == 0
NoCandle == [open |-> 0, close |-> 0]
NoQuote == [bid |-> 0, ask |-> 0]
\* what compute_atr has returned before it is called
NoResult == [raised |-> FALSE, atr |-> Zero]

(* ---------------- the broker's book ------------------------------------ *)
\* the JSON body of POST /equity/order as the broker keeps it, with its status
Order(type, q, price) ==
    [type |-> type, quantity |-> q, price |-> price,
     status |-> "PENDING", avgPrice |-> NoPrice]
\* a market order for one share whatever quantity is asked for
MarketOrderForOne(q) == Order("MARKET", One, NoPrice)
\* place_market_order: {"instrumentId", "quantity", "orderType": "MARKET"}
MarketOrder(q) == Order("MARKET", q, NoPrice)
\* place_stop_order: {"instrumentId", "quantity", "orderType": "STOP", "stopPrice"}
StopOrder(q, price) == Order("STOP", q, price)
\* "stopPrice": round(stop_price, 2)
StopPriceSent(stop) == Round2Set(stop, 1)
\* get_order_status(order_id)["status"]
Status(id) == orders[id].status
Resting(id) == id \in 1..Len(orders) /\ orders[id].status = "PENDING"
CanPlace == Len(orders) < MaxOrders
NextId == Len(orders) + 1

\* an exception that is caught and dropped, the loop going round again
RaiseSwallowed == pc' = "h_quote"
\* an uncaught exception ends the process
Raise == pc' = "crashed"

Init ==
    /\ MODE_BASIC \in BOOLEAN
    /\ MODE_COMPOUND \in BOOLEAN
    /\ today = 0
    /\ orders = <<>>
    /\ realized = 0
    /\ entries = {}
    /\ pc = "loop_top"
    /\ current_day = 0
    /\ daily_pnl = 0
    /\ last_bar_time = NoBar
    /\ df_len = 0
    /\ bar_time = NoBar
    /\ latest_bar = NoCandle
    /\ atr = 0
    /\ pos = EmptyDict
    /\ qty = Zero
    /\ px = NoQuote
    /\ est_qty = Zero
    /\ buy_id = NoOrder
    /\ entry_price = NoPrice
    /\ st = "none"
    /\ ret = "none"
    /\ pos2 = EmptyDict
    /\ h_entry_price = NoPrice
    /\ quantity = Zero
    /\ stop_price = NoPrice
    /\ stop_id = NoOrder
    /\ mid = 0
    /\ new_stop = 0
    /\ sell_id = NoOrder
    /\ st2 = "none"
    /\ pnl = 0
    /\ daily_pnl_ref = 0
    /\ sc_pc = "off"
    /\ quote = [bid |-> 0, ask |-> 0, last |-> 0]
    /\ sc_orders = <<>>
    /\ atr_pc = "off"
    /\ df2 = <<>>
    /\ period = 0
    /\ atr_ret = NoResult

(* ---------------- environment ------------------------------------------ *)
\* The broker is observed while the process runs.
\* It fills a working order at some price
BrokerFill ==
    \E i \in 1..Len(orders) :
        /\ pc \notin {"crashed", "off"}
        /\ orders[i].status = "PENDING"
        /\ \E p \in (IF orders[i].type = "STOP" THEN StopFills ELSE MarketFills) :
              orders' = [orders EXCEPT ![i].status = "FILLED", ![i].avgPrice = p]
        /\ UNCHANGED <<cfgVars, today, realized, entries, pc, mainVars, hVars, scVars, atrVars>>

\* or cancels, rejects or expires it
BrokerEnd ==
    \E i \in 1..Len(orders), s \in {"CANCELLED", "REJECTED", "EXPIRED"} :
        /\ pc \notin {"crashed", "off"}
        /\ orders[i].status = "PENDING"
        /\ orders' = [orders EXCEPT ![i].status = s]
        /\ UNCHANGED <<cfgVars, today, realized, entries, pc, mainVars, hVars, scVars, atrVars>>

(* ---------------- main (src/bottest.py 406-549) ------------------------ *)
\* lines 415-429: the clock is read (the date may have advanced since it was
\* last read), reset at a new date, then the daily loss gate
LossGate(d) == d <= -DAILY_LOSS_LIMIT
MainLoopTop ==
    /\ pc = "loop_top"
    /\ \E now \in {today, today + 1} :
         /\ now <= MaxDay
         /\ LET d == IF now # current_day THEN 0 ELSE daily_pnl
            IN  /\ current_day' = now
                /\ daily_pnl' = d
                /\ IF LossGate(d)
                   THEN \* sleep until 5 s past midnight, then continue
                        /\ now < MaxDay
                        /\ today' = now + 1
                        /\ realized' = 0
                        /\ pc' = "loop_top"
                   ELSE /\ today' = now
                        /\ realized' = IF now # today THEN 0 ELSE realized
                        /\ pc' = "fetch_bars"
    \* the other locals are rebound before main reads them again
    /\ df_len' = 0 /\ bar_time' = NoBar
    /\ latest_bar' = NoCandle /\ atr' = 0 /\ pos' = EmptyDict /\ qty' = Zero
    /\ px' = NoQuote /\ est_qty' = Zero /\ buy_id' = NoOrder
    /\ entry_price' = NoPrice /\ st' = "none"
    /\ UNCHANGED <<cfgVars, orders, entries, last_bar_time, hVars, scVars, atrVars>>

\* lines 431-437: the bars are fetched; an exception (also the KeyError of a
\* frame made from an empty list) is caught, and the cycle ends with a sleep
MainFetchBars ==
    /\ pc = "fetch_bars"
    /\ \/ pc' = "loop_top" /\ UNCHANGED df_len
       \/ \E n \in BarCounts : df_len' = n /\ pc' = "check_bars"
    /\ UNCHANGED <<cfgVars, envVars, current_day, daily_pnl, last_bar_time,
                   bar_time, latest_bar, atr, pos, qty, px, est_qty, buy_id,
                   entry_price, st, hVars, scVars, atrVars>>

\* a bar count test that lets exactly ATR_PERIOD bars through
TooFewBarsForPeriod(n) == n = 0 \/ n < ATR_PERIOD
\* line 439: df.empty or len(df) < ATR_PERIOD + 1
TooFewBars(n) == n = 0 \/ n < ATR_PERIOD + 1
\* a new-bar test that takes a bar of the same timestamp for a new one
NoNewBarBefore(t, last) == last # NoBar /\ t < last
\* line 446: last_bar_time is not None and bar_time <= last_bar_time
NoNewBar(t, last) == last # NoBar /\ t <= last
\* lines 439-463: bar count, new-bar check, ATR floor
MainCheckBars ==
    /\ pc = "check_bars"
    /\ IF TooFewBars(df_len)
       THEN /\ pc' = "loop_top"
            /\ UNCHANGED <<last_bar_time, bar_time, latest_bar, atr>>
       ELSE \E t \in 1..MaxBarTime, c \in Candles, a \in AtrValues :
              /\ latest_bar' = c
              /\ bar_time' = t
              /\ IF NoNewBar(t, last_bar_time)
                 THEN /\ pc' = "loop_top"
                      /\ UNCHANGED <<last_bar_time, atr>>
                 ELSE /\ last_bar_time' = t
                      /\ atr' = a
                      /\ pc' = IF a < MIN_ATR_EUR THEN "loop_top"
                               ELSE "get_position"
    /\ UNCHANGED <<cfgVars, envVars, current_day, daily_pnl, df_len, pos, qty,
                   px, est_qty, buy_id, entry_price, st, hVars, scVars, atrVars>>

\* lines 465-466
MainGetPosition ==
    /\ pc = "get_position"
    /\ \/ Raise /\ UNCHANGED <<pos, qty>>
       \/ \E p \in {EmptyDict} \cup BrokerPositions :
            /\ pos' = p
            /\ qty' = IF "quantity" \in DOMAIN p THEN p.quantity ELSE Zero
            /\ pc' = "get_price"
    /\ UNCHANGED <<cfgVars, envVars, current_day, daily_pnl, last_bar_time,
                   df_len, bar_time,
                   latest_bar, atr, px, est_qty, buy_id, entry_price, st, hVars,
                   scVars, atrVars>>

\* a spread gate that also blocks at the limit
SpreadTooWideAtLimit(q) == q.ask - q.bid >= MAX_SPREAD_EUR
\* lines 468-477: quote, spread gate, choice of the entry block
SpreadTooWide(q) == q.ask - q.bid > MAX_SPREAD_EUR
MainGetPrice ==
    /\ pc = "get_price"
    /\ \/ Raise /\ UNCHANGED px
       \/ \E q \in EntryQuotes :
            /\ px' = q
            /\ pc' = IF SpreadTooWide(q) THEN "loop_top"
                     ELSE IF MODE_COMPOUND /\ DOMAIN pos = {} THEN "compound_cash"
                     ELSE "basic"
    /\ UNCHANGED <<cfgVars, envVars, current_day, daily_pnl, last_bar_time,
                   df_len, bar_time,
                   latest_bar, atr, pos, qty, est_qty, buy_id, entry_price, st,
                   hVars, scVars, atrVars>>

\* lines 478-480, 503-504: est_qty = cash / ask, and est_qty * ask >= MIN_ATR_EUR
EstQty(cash, ask) == IF ask > 0 THEN Frac(cash, ask) ELSE Zero
\* a cash test against 0 instead of MIN_ATR_EUR
EnoughCashNonNegative(q, ask) == q.n * ask >= 0
\* line 480: est_qty * px["ask"] >= MIN_ATR_EUR
EnoughCash(q, ask) == q.n * ask >= MIN_ATR_EUR * q.d
MainCompoundCash ==
    /\ pc = "compound_cash"
    /\ \/ Raise /\ UNCHANGED est_qty
       \/ \E cash \in CashValues :
            LET e == EstQty(cash, px.ask)
            IN  /\ est_qty' = e
                /\ pc' = IF EnoughCash(e, px.ask) THEN "buy_place"
                         ELSE "basic"
    /\ UNCHANGED <<cfgVars, envVars, current_day, daily_pnl, last_bar_time,
                   df_len, bar_time,
                   latest_bar, atr, pos, qty, px, buy_id, entry_price, st, hVars,
                   scVars, atrVars>>

\* lines 503-507 and 537-549: the Compound block is left without a buy (it was
\* skipped, or there was not enough cash); the test of the Basic block; with
\* a position, the trailing stop on it; without, sleep and the next cycle
MainBasic ==
    /\ pc = "basic"
    /\ pc' = IF MODE_BASIC /\ DOMAIN pos = {} THEN "basic_candle"
             ELSE IF DOMAIN pos # {} THEN "existing_stop"
             ELSE "loop_top"
    /\ UNCHANGED <<cfgVars, envVars, mainVars, hVars, scVars, atrVars>>

\* line 511: close_p < open_p and drop >= SELL_ATR_K * atr
RedCandle(bar, a) ==
    bar.close < bar.open /\ bar.open - bar.close >= SELL_ATR_K * a
\* lines 508-535, then 538 (no position here) and 549: the red-candle test of
\* the Basic block, which sells only if qty > 0
MainBasicCandle ==
    /\ pc = "basic_candle"
    /\ pc' = IF RedCandle(latest_bar, atr) /\ qty.n > 0 THEN "sell_place"
             ELSE "loop_top"
    /\ UNCHANGED <<cfgVars, envVars, mainVars, hVars, scVars, atrVars>>

\* lines 482-483: buy_id = place_market_order(inst_id, est_qty)
MainBuyPlace ==
    /\ pc = "buy_place"
    /\ \/ Raise /\ UNCHANGED <<orders, entries, buy_id, entry_price>>
       \/ /\ CanPlace
          /\ orders' = Append(orders, MarketOrder(est_qty))
          /\ entries' = entries \cup {NextId}
          /\ buy_id' = NextId
          /\ entry_price' = NoPrice
          /\ pc' = "buy_poll"
    /\ UNCHANGED <<cfgVars, today, realized, current_day, daily_pnl,
                   last_bar_time, df_len, bar_time,
                   latest_bar, atr, pos, qty, px, est_qty, st,
                   hVars, scVars, atrVars>>

\* a test of the buy's status that takes any terminal status for a fill
BuyFilledOrEnded(s) == s \in Terminal
\* line 487: st == "FILLED"
BuyFilled(s) == s = "FILLED"
\* lines 484-496, 502: one poll of the Compound buy
MainBuyPoll ==
    /\ pc = "buy_poll"
    /\ \/ Raise /\ UNCHANGED <<st, entry_price>>
       \/ /\ st' = Status(buy_id)
          /\ IF BuyFilled(Status(buy_id))
             THEN entry_price' = orders[buy_id].avgPrice /\ pc' = "init_stop"
             ELSE IF Status(buy_id) \in {"CANCELLED", "REJECTED", "EXPIRED"}
             THEN entry_price' = NoPrice /\ pc' = "loop_top"
             ELSE UNCHANGED entry_price /\ pc' = "buy_sleep"
    /\ UNCHANGED <<cfgVars, envVars, current_day, daily_pnl, last_bar_time,
                   df_len, bar_time,
                   latest_bar, atr, pos, qty, px, est_qty, buy_id, hVars, scVars, atrVars>>

\* line 495: time.sleep(POLL_PRICE_SEC)
MainBuySleep ==
    /\ pc = "buy_sleep"
    /\ pc' = "buy_poll"
    /\ UNCHANGED <<cfgVars, envVars, mainVars, hVars, scVars, atrVars>>

\* a first stop on the wrong side of the entry
InitialStopAbove(entry, a) == entry + STOP_ATR_K * a
\* lines 497-501: the first stop, the position record and the call
InitialStop(entry, a) == entry - STOP_ATR_K * a
MainInitStop ==
    /\ pc = "init_stop"
    /\ \/ Raise /\ UNCHANGED <<orders, ret, pos2, daily_pnl_ref>>
       \/ /\ CanPlace
          /\ \E sent \in StopPriceSent(InitialStop(entry_price, atr)) :
                orders' = Append(orders, StopOrder(est_qty, sent))
          /\ pos2' = [quantity |-> est_qty, entryPrice |-> entry_price,
                      stopOrderId |-> NextId,
                      stopPrice |-> InitialStop(entry_price, atr)]
          /\ daily_pnl_ref' = daily_pnl
          /\ ret' = "compound"
          /\ pc' = "h_enter"
    /\ UNCHANGED <<cfgVars, today, realized, entries, mainVars, h_entry_price, quantity,
                   stop_price, stop_id, mid, new_stop, sell_id, st2, pnl, scVars, atrVars>>

\* lines 538-547: a position the broker reports, with no recorded stop
MainExistingStop ==
    /\ pc = "existing_stop"
    /\ IF "stopPrice" \in DOMAIN pos
       THEN /\ pos2' = pos
            /\ daily_pnl_ref' = daily_pnl
            /\ ret' = "existing"
            /\ pc' = "h_enter"
            /\ UNCHANGED <<orders, pos>>
       ELSE \/ Raise /\ UNCHANGED <<orders, pos, ret, pos2, daily_pnl_ref>>
            \/ /\ CanPlace
               /\ \E sent \in StopPriceSent(InitialStop(pos.avgEntryPrice, atr)) :
                     orders' = Append(orders, StopOrder(qty, sent))
               /\ pos' = [k \in DOMAIN pos \cup {"stopOrderId", "stopPrice"} |->
                            IF k = "stopOrderId" THEN NextId
                            ELSE IF k = "stopPrice"
                                 THEN InitialStop(pos.avgEntryPrice, atr)
                                 ELSE pos[k]]
               /\ pos2' = pos'
               /\ daily_pnl_ref' = daily_pnl
               /\ ret' = "existing"
               /\ pc' = "h_enter"
    /\ UNCHANGED <<cfgVars, today, realized, entries, current_day, daily_pnl,
                   last_bar_time, df_len, bar_time,
                   latest_bar, atr, qty, px, est_qty, buy_id,
                   entry_price, st, h_entry_price, quantity, stop_price, stop_id,
                   mid, new_stop, sell_id, st2, pnl, scVars, atrVars>>

(* ------- handle_trailing_and_failsafe (src/bottest.py 580-635) --------- *)
\* a trail test that also moves the stop by exactly MIN_PRICE_MOVE
MovesStopAtStep(new, old) == new >= old + MIN_PRICE_MOVE
\* a trail test that follows the candidate wherever it goes
MovesStopEitherWay(new, old) == new # old
\* line 596: new_stop > stop_price + MIN_PRICE_MOVE
MovesStop(new, old) == new > old + MIN_PRICE_MOVE
\* a failsafe test that misses the boundary
FailsafeStrict(m, stop) == PerMille * m < GAP_FAILSAFE_MULT * stop
\* line 608: mid <= GAP_FAILSAFE_MULT * stop_price
Failsafe(m, stop) == PerMille * m <= GAP_FAILSAFE_MULT * stop
\* a P&L with the two prices exchanged
PnlReversed(exit, entry, q) == Round2Set((entry - exit) * q.n, q.d)
\* lines 620, 630: round((exit_price - entry_price) * quantity, 2)
Pnl(exit, entry, q) == Round2Set((exit - entry) * q.n, q.d)
\* lines 598-601, 610-613: try: cancel_order(id) except: pass.  The order is
\* cancelled if it is still working and the call gets through; otherwise the
\* error (already terminal, or the call failed) is dropped.
CancelIgnoringErrors(id) ==
    \/ /\ Resting(id)
       /\ orders' = [orders EXCEPT ![id].status = "CANCELLED"]
    \/ UNCHANGED orders

\* lines 585-588: the four keys read from the position record
HEnter ==
    /\ pc = "h_enter"
    /\ IF {"entryPrice", "quantity", "stopPrice", "stopOrderId"} \subseteq DOMAIN pos2
       THEN /\ h_entry_price' = pos2.entryPrice
            /\ quantity' = pos2.quantity
            /\ stop_price' = pos2.stopPrice
            /\ stop_id' = pos2.stopOrderId
            /\ pc' = "h_quote"
       ELSE Raise /\ UNCHANGED <<h_entry_price, quantity, stop_price, stop_id>>
    /\ UNCHANGED <<cfgVars, envVars, mainVars, ret, pos2, mid, new_stop, sell_id,
                   st2, pnl, daily_pnl_ref, scVars, atrVars>>

\* a candidate on the wrong side of the mid
CandidateAbove(m, a) == m + TRAIL_ATR_K * a
\* line 595: new_stop = mid - TRAIL_ATR_K * atr
Candidate(m, a) == m - TRAIL_ATR_K * a
\* lines 591-596: quote, mid, candidate stop, trail test
HQuote ==
    /\ pc = "h_quote"
    /\ \/ Raise /\ UNCHANGED <<mid, new_stop>>
       \/ \E q \in Quotes :
            /\ mid' = Mid(q)
            /\ new_stop' = Candidate(Mid(q), atr)
            /\ pc' = IF MovesStop(Candidate(Mid(q), atr), stop_price)
                     THEN "trail_cancel"
                     ELSE "fs_check"
    /\ UNCHANGED <<cfgVars, envVars, mainVars, ret, pos2, h_entry_price, quantity,
                   stop_price, stop_id, sell_id, st2, pnl, daily_pnl_ref, scVars, atrVars>>

\* lines 598-602: cancel the old stop, take the candidate as the stop
HTrailCancel ==
    /\ pc = "trail_cancel"
    /\ CancelIgnoringErrors(stop_id)
    /\ stop_price' = new_stop
    /\ pc' = "trail_place"
    /\ UNCHANGED <<cfgVars, today, realized, entries, mainVars, ret, pos2, h_entry_price,
                   quantity, stop_id, mid, new_stop, sell_id, st2, pnl,
                   daily_pnl_ref, scVars, atrVars>>

\* lines 603-605: the replacement stop
HTrailPlace ==
    /\ pc = "trail_place"
    /\ \/ Raise /\ UNCHANGED <<orders, stop_id, pos2>>
       \/ /\ CanPlace
          /\ \E sent \in StopPriceSent(stop_price) :
                orders' = Append(orders, StopOrder(quantity, sent))
          /\ stop_id' = NextId
          /\ pos2' = [pos2 EXCEPT !["stopOrderId"] = NextId,
                                  !["stopPrice"] = stop_price]
          /\ pc' = "fs_check"
    /\ UNCHANGED <<cfgVars, today, realized, entries, mainVars, ret, h_entry_price,
                   quantity, stop_price, mid, new_stop, sell_id, st2, pnl,
                   daily_pnl_ref, scVars, atrVars>>

\* line 608: the failsafe test, on the stop as the trail check left it
HFsCheck ==
    /\ pc = "fs_check"
    /\ pc' = IF Failsafe(mid, stop_price) THEN "fs_cancel" ELSE "stop_status"
    /\ UNCHANGED <<cfgVars, envVars, mainVars, hVars, scVars, atrVars>>

\* lines 610-613
HFsCancel ==
    /\ pc = "fs_cancel"
    /\ CancelIgnoringErrors(stop_id)
    /\ pc' = "fs_place"
    /\ UNCHANGED <<cfgVars, today, realized, entries, mainVars, hVars, scVars, atrVars>>

\* line 614: sell_id = place_market_order(inst_id, quantity)
HFsPlace ==
    /\ pc = "fs_place"
    /\ \/ Raise /\ UNCHANGED <<orders, sell_id>>
       \/ /\ CanPlace
          /\ orders' = Append(orders, MarketOrder(quantity))
          /\ sell_id' = NextId
          /\ pc' = "fs_poll"
    /\ UNCHANGED <<cfgVars, today, realized, entries, mainVars, ret, pos2, h_entry_price,
                   quantity, stop_price, stop_id, mid, new_stop, st2, pnl,
                   daily_pnl_ref, scVars, atrVars>>

\* lines 616-624: one poll of the failsafe order; only FILLED leaves the loop
HFsPoll ==
    /\ pc = "fs_poll"
    /\ \/ Raise /\ UNCHANGED <<st2, pnl, daily_pnl_ref, realized>>
       \/ /\ st2' = Status(sell_id)
          /\ IF st2' = "FILLED"
             THEN /\ pnl' \in Pnl(orders[sell_id].avgPrice, h_entry_price, quantity)
                  /\ daily_pnl_ref' = daily_pnl_ref + pnl'
                  /\ realized' = realized + pnl'
                  /\ pc' = "h_return"
             ELSE /\ pc' = "fs_sleep"
                  /\ UNCHANGED <<pnl, daily_pnl_ref, realized>>
    /\ UNCHANGED <<cfgVars, today, orders, entries, mainVars, ret, pos2, h_entry_price,
                   quantity, stop_price, stop_id, mid, new_stop, sell_id, scVars, atrVars>>

\* line 624: time.sleep(POLL_PRICE_SEC)
HFsSleep ==
    /\ pc = "fs_sleep"
    /\ pc' = "fs_poll"
    /\ UNCHANGED <<cfgVars, envVars, mainVars, hVars, scVars, atrVars>>

\* a test of the stop's status that takes any terminal status for a fill
StopOrderEnded(s) == s \in Terminal
\* line 628: status["status"] == "FILLED"
StopOrderFilled(s) == s = "FILLED"
\* lines 627-635: the resting stop's status, then sleep and iterate
HStopStatus ==
    /\ pc = "stop_status"
    /\ \/ Raise /\ UNCHANGED <<pnl, daily_pnl_ref, realized>>
       \/ IF StopOrderFilled(Status(stop_id))
          THEN /\ pnl' \in Pnl(orders[stop_id].avgPrice, h_entry_price, quantity)
               /\ daily_pnl_ref' = daily_pnl_ref + pnl'
               /\ realized' = realized + pnl'
               /\ pc' = "h_return"
          ELSE /\ pc' = "h_quote"
               /\ UNCHANGED <<pnl, daily_pnl_ref, realized>>
    /\ UNCHANGED <<cfgVars, today, orders, entries, mainVars, ret, pos2, h_entry_price,
                   quantity, stop_price, stop_id, mid, new_stop, sell_id, st2,
                   scVars, atrVars>>

\* lines 623, 633 and 502, 547-549: return to main, which starts its next cycle
HReturn ==
    /\ pc = "h_return"
    /\ pc' = "loop_top"
    \* the frame of the call is gone
    /\ ret' = "none" /\ pos2' = EmptyDict /\ h_entry_price' = NoPrice
    /\ quantity' = Zero /\ stop_price' = NoPrice /\ stop_id' = NoOrder
    /\ mid' = 0 /\ new_stop' = 0 /\ sell_id' = NoOrder /\ st2' = "none"
    /\ pnl' = 0 /\ daily_pnl_ref' = 0
    /\ UNCHANGED <<cfgVars, envVars, mainVars, scVars, atrVars>>

Broker == BrokerFill \/ BrokerEnd
Program ==
    \/ MainLoopTop \/ MainFetchBars \/ MainCheckBars \/ MainGetPosition
    \/ MainGetPrice
    \/ MainCompoundCash \/ MainBasic \/ MainBasicCandle \/ MainBuyPlace \/ MainBuyPoll \/ MainBuySleep
    \/ MainInitStop \/ MainExistingStop
    \/ HEnter \/ HQuote \/ HTrailCancel \/ HTrailPlace \/ HFsCheck \/ HFsCancel
    \/ HFsPlace \/ HFsPoll \/ HFsSleep \/ HStopStatus \/ HReturn
Next == Program \/ Broker
Spec == Init /\ [][Next]_vars

(* ------- the position controller on its own ---------------------------- *)
\* The state in which main has just seen its Compound buy FILLED (line 496,
\* entry_price is not None): every gate of that cycle was passed, and the
\* filled buy is the only order.  From here on only the first stop and
\* handle_trailing_and_failsafe run, until the call returns.
PcInit ==
    \E q \in Quotes, cash \in CashValues, a \in AtrValues, f \in MarketFills,
       c \in Candles :
        /\ a >= MIN_ATR_EUR
        /\ ~SpreadTooWide(q)
        /\ EnoughCash(EstQty(cash, q.ask), q.ask)
        /\ MODE_BASIC = FALSE
        /\ MODE_COMPOUND = TRUE
        /\ today = 0
        /\ orders = << [MarketOrder(EstQty(cash, q.ask))
                          EXCEPT !.status = "FILLED", !.avgPrice = f] >>
        /\ realized = 0
        /\ entries = {1}
        /\ pc = "init_stop"
        /\ current_day = 0
        /\ daily_pnl = 0
        /\ last_bar_time = 1
        /\ df_len = ATR_PERIOD + 2
        /\ bar_time = 1
        /\ latest_bar = c
        /\ atr = a
        /\ pos = EmptyDict
        /\ qty = Zero
        /\ px = q
        /\ est_qty = EstQty(cash, q.ask)
        /\ buy_id = 1
        /\ entry_price = f
        /\ st = "FILLED"
        /\ ret = "none"
        /\ pos2 = EmptyDict
        /\ h_entry_price = NoPrice
        /\ quantity = Zero
        /\ stop_price = NoPrice
        /\ stop_id = NoOrder
        /\ mid = 0
        /\ new_stop = 0
        /\ sell_id = NoOrder
        /\ st2 = "none"
        /\ pnl = 0
        /\ daily_pnl_ref = 0
        /\ sc_pc = "off"
        /\ quote = [bid |-> 0, ask |-> 0, last |-> 0]
        /\ sc_orders = <<>>
        /\ atr_pc = "off"
        /\ df2 = <<>>
        /\ period = 0
        /\ atr_ret = NoResult

\* the steps of one call that ends by returning
PcReturn ==
    /\ pc = "h_return"
    /\ pc' = "returned"
    /\ UNCHANGED <<cfgVars, envVars, mainVars, hVars, scVars, atrVars>>

Controller ==
    \/ MainInitStop
    \/ HEnter \/ HQuote \/ HTrailCancel \/ HTrailPlace \/ HFsCheck \/ HFsCancel
    \/ HFsPlace \/ HFsPoll \/ HFsSleep \/ HStopStatus \/ PcReturn
PcNext == Controller \/ Broker
PcSpec == PcInit /\ [][PcNext]_vars
\* the process is never descheduled for ever: a sleep ends, a call returns
PcFairSpec == PcSpec /\ WF_vars(Controller)

(* ------- the position controller under interrupts ---------------------- *)
\* an interrupt handler that cancels the stop before the process ends
InterruptCancellingStop ==
    /\ pc \notin {"crashed", "returned", "off"}
    /\ pc' = "crashed"
    /\ orders' = IF Resting(stop_id)
                 THEN [orders EXCEPT ![stop_id].status = "CANCELLED"]
                 ELSE orders
    /\ UNCHANGED <<cfgVars, today, realized, entries, mainVars, hVars, scVars,
                   atrVars>>
\* lines 637-638: main() is called bare, with no try/finally and no signal
\* handler; a KeyboardInterrupt raised at any statement (a sleep, a request)
\* ends the process where it stands
Interrupt ==
    /\ pc \notin {"crashed", "returned", "off"}
    /\ pc' = "crashed"
    /\ UNCHANGED <<cfgVars, envVars, mainVars, hVars, scVars, atrVars>>

PcIntNext == Controller \/ Broker \/ Interrupt
PcIntSpec == PcInit /\ [][PcIntNext]_vars

(* ------- main up to the call of the position controller ---------------- *)
\* The cycles of main until it hands a position to
\* handle_trailing_and_failsafe for the first time: the run is followed up to
\* the first statements of that call (lines 585-588).
CycleNext ==
    \/ MainLoopTop \/ MainFetchBars \/ MainCheckBars \/ MainGetPosition
    \/ MainGetPrice
    \/ MainCompoundCash \/ MainBasic \/ MainBasicCandle \/ MainBuyPlace
    \/ MainBuyPoll \/ MainBuySleep \/ MainInitStop \/ MainExistingStop
    \/ HEnter
    \/ Broker
CycleSpec == Init /\ [][CycleNext]_vars

(* ------- the simple scalp loop (src/scalp_bot.py 329-359, 403-412) ------ *)
\* a buy test that skips the exact boundary
BuySignalStrict(q) == PerMille * q.ask < 998 * q.last
\* line 346, 350: ask <= last * 0.998
BuySignal(q) == PerMille * q.ask <= 998 * q.last
\* line 347, 354: bid >= last * 1.002
SellSignal(q) == PerMille * q.bid >= 1002 * q.last

ScalpInit ==
    /\ MODE_BASIC = FALSE
    /\ MODE_COMPOUND = FALSE
    /\ today = 0
    /\ orders = <<>>
    /\ realized = 0
    /\ entries = {}
    /\ pc = "off"
    /\ current_day = 0
    /\ daily_pnl = 0
    /\ last_bar_time = NoBar
    /\ df_len = 0
    /\ bar_time = NoBar
    /\ latest_bar = NoCandle
    /\ atr = 0
    /\ pos = EmptyDict
    /\ qty = Zero
    /\ px = NoQuote
    /\ est_qty = Zero
    /\ buy_id = NoOrder
    /\ entry_price = NoPrice
    /\ st = "none"
    /\ ret = "none"
    /\ pos2 = EmptyDict
    /\ h_entry_price = NoPrice
    /\ quantity = Zero
    /\ stop_price = NoPrice
    /\ stop_id = NoOrder
    /\ mid = 0
    /\ new_stop = 0
    /\ sell_id = NoOrder
    /\ st2 = "none"
    /\ pnl = 0
    /\ daily_pnl_ref = 0
    /\ sc_pc = "search"
    /\ quote = [bid |-> 0, ask |-> 0, last |-> 0]
    /\ sc_orders = <<>>
    /\ atr_pc = "off"
    /\ df2 = <<>>
    /\ period = 0
    /\ atr_ret = NoResult

botVars == <<cfgVars, envVars, pc, mainVars, hVars, atrVars>>

\* lines 335-338: search_instrument; an exception reaches main, which exits
ScSearch ==
    /\ sc_pc = "search"
    /\ \/ sc_pc' = "exited"
       \/ sc_pc' = "quote"
    /\ UNCHANGED <<botVars, quote, sc_orders>>

\* lines 340-344: get_market_quote
ScQuote ==
    /\ sc_pc = "quote"
    /\ \/ sc_pc' = "exited" /\ UNCHANGED quote
       \/ \E b \in ScalpPrices, a \in ScalpPrices, l \in ScalpPrices :
            /\ quote' = [bid |-> b, ask |-> a, last |-> l]
            /\ sc_pc' = "decide"
    /\ UNCHANGED <<botVars, sc_orders>>

\* lines 346-359: if ask <= target_buy ... elif bid >= target_sell ... else
ScDecide ==
    /\ sc_pc = "decide"
    /\ IF BuySignal(quote)
       THEN \/ sc_pc' = "exited" /\ UNCHANGED sc_orders
            \/ /\ Len(sc_orders) < MaxScalpOrders
               /\ sc_orders' = Append(sc_orders, "BUY")
               /\ sc_pc' = "sleep"
       ELSE IF SellSignal(quote)
       THEN \/ sc_pc' = "exited" /\ UNCHANGED sc_orders
            \/ /\ Len(sc_orders) < MaxScalpOrders
               /\ sc_orders' = Append(sc_orders, "SELL")
               /\ sc_pc' = "sleep"
       ELSE sc_pc' = "sleep" /\ UNCHANGED sc_orders
    /\ UNCHANGED <<botVars, quote>>

\* line 407: safe_sleep(interval), then the next cycle
ScSleep ==
    /\ sc_pc = "sleep"
    /\ sc_pc' = "search"
    /\ UNCHANGED <<botVars, quote, sc_orders>>

ScalpNext == ScSearch \/ ScQuote \/ ScDecide \/ ScSleep
ScalpSpec == ScalpInit /\ [][ScalpNext]_vars

(* ------- compute_atr (src/bottest.py 299-310, 456-457) ----------------- *)
\* bars [high, low, close]: one that gaps up from every other close, one with
\* a range of 1.00, and a flat one
Bars == { [high |-> 102000, low |-> 101500, close |-> 102000],
          [high |-> 100000, low |-> 99000, close |-> 99000],
          [high |-> 100000, low |-> 100000, close |-> 100000] }
Periods == 2..MaxPeriod
BarSeqs(p) == UNION { [1..n -> Bars] : n \in 0..(p + 2) }

Max2(a, b) == IF a >= b THEN a ELSE b
\* lines 304-308: TR of row i.  prev_close of the first row is NaN, so are its
\* tr2 and tr3, and max(axis=1) skips NaN: the first row's TR is high - low
TR(b, i) ==
    LET tr1 == b[i].high - b[i].low
    IN  IF i = 1 THEN tr1
        ELSE Max2(tr1, Max2(Abs(b[i].high - b[i - 1].close),
                            Abs(b[i].low - b[i - 1].close)))
RECURSIVE SumTR(_, _, _)
SumTR(b, from, to) ==
    IF from > to THEN 0 ELSE TR(b, from) + SumTR(b, from + 1, to)
\* lines 303-310.  rolling(window=period, min_periods=period).mean() is NaN
\* on a row with fewer than period rows up to it; .iloc[-1] of an empty
\* Series raises IndexError; NaN is returned as 0.0
compute_atr(b, p) ==
    IF Len(b) = 0 THEN [raised |-> TRUE, atr |-> Zero]
    ELSE IF Len(b) < p THEN [raised |-> FALSE, atr |-> Zero]
    ELSE [raised |-> FALSE, atr |-> Frac(SumTR(b, Len(b) - p + 1, Len(b)), p)]
\* line 456: df.iloc[-(ATR_PERIOD+1):-1], the period bars before the latest
AtrDf(b, p) == SubSeq(b, Len(b) - p, Len(b) - 1)

AtrInit ==
    /\ MODE_BASIC = FALSE
    /\ MODE_COMPOUND = FALSE
    /\ today = 0
    /\ orders = <<>>
    /\ realized = 0
    /\ entries = {}
    /\ pc = "off"
    /\ current_day = 0
    /\ daily_pnl = 0
    /\ last_bar_time = NoBar
    /\ df_len = 0
    /\ bar_time = NoBar
    /\ latest_bar = NoCandle
    /\ atr = 0
    /\ pos = EmptyDict
    /\ qty = Zero
    /\ px = NoQuote
    /\ est_qty = Zero
    /\ buy_id = NoOrder
    /\ entry_price = NoPrice
    /\ st = "none"
    /\ ret = "none"
    /\ pos2 = EmptyDict
    /\ h_entry_price = NoPrice
    /\ quantity = Zero
    /\ stop_price = NoPrice
    /\ stop_id = NoOrder
    /\ mid = 0
    /\ new_stop = 0
    /\ sell_id = NoOrder
    /\ st2 = "none"
    /\ pnl = 0
    /\ daily_pnl_ref = 0
    /\ sc_pc = "off"
    /\ quote = [bid |-> 0, ask |-> 0, last |-> 0]
    /\ sc_orders = <<>>
    /\ atr_pc = "call"
    /\ period \in Periods
    /\ df2 \in BarSeqs(period)
    /\ atr_ret = NoResult

\* compute_atr(df, period) on the bars as they are given
ComputeAtr ==
    /\ atr_pc = "call"
    /\ atr_ret' = compute_atr(df2, period)
    /\ atr_pc' = "done"
    /\ UNCHANGED <<cfgVars, envVars, pc, mainVars, hVars, scVars, df2, period>>

\* lines 439, 456-457: main, having at least period + 1 bars, calls
\* compute_atr on the period bars before the latest one
MainComputeAtr ==
    /\ atr_pc = "call"
    /\ ~(Len(df2) = 0 \/ Len(df2) < period + 1)
    /\ atr_ret' = compute_atr(AtrDf(df2, period), period)
    /\ atr_pc' = "done_main"
    /\ UNCHANGED <<cfgVars, envVars, pc, mainVars, hVars, scVars, df2, period>>

AtrNext == ComputeAtr \/ MainComputeAtr
AtrSpec == AtrInit /\ [][AtrNext]_vars

(* =================== properties ======================================== *)
\* control points of one call of handle_trailing_and_failsafe, after its
\* locals are bound and before it returns
InLoop == {"h_quote", "trail_cancel", "trail_place", "fs_check", "fs_cancel",
           "fs_place", "fs_poll", "fs_sleep", "stop_status"}
InFailsafe == {"fs_cancel", "fs_place", "fs_poll", "fs_sleep"}
NonFill == {"CANCELLED", "REJECTED", "EXPIRED"}

\* C1: within one run of handle_trailing_and_failsafe no step lowers the
\* recorded stop: stop_price never decreases, pos["stopPrice"] never decreases,
\* and outside the two lines between their assignments the two are equal.
C1_StopNeverDecreases ==
    [][(pc \in InLoop /\ pc' \in InLoop)
         => ( /\ stop_price' >= stop_price
              /\ pos2'.stopPrice >= pos2.stopPrice
              /\ (pc' # "trail_place" => pos2'.stopPrice = stop_price') )]_vars
\* a run in which the stop has been raised above the initial stop
C1_Witness ==
    /\ pc = "fs_check"
    /\ stop_price > InitialStop(h_entry_price, atr)
    /\ pos2.stopPrice = stop_price

\* C4: the failsafe branch is entered exactly when mid <= 0.995 * stop_price,
\* stop_price being the stop the trail check of that iteration left; when the
\* branch is not entered the iteration goes on to poll the stop.
C4_FailsafeIff ==
    /\ pc \in InFailsafe => PerMille * mid <= GAP_FAILSAFE_MULT * stop_price
    /\ pc = "stop_status" => PerMille * mid > GAP_FAILSAFE_MULT * stop_price
\* the failsafe fired with mid exactly 0.995 * stop_price
C4_Witness ==
    /\ pc = "fs_cancel"
    /\ stop_price > 0
    /\ PerMille * mid = GAP_FAILSAFE_MULT * stop_price

\* the order a step has just appended to the broker's book
Placed == orders'[Len(orders')]
PlacesOne == Len(orders') = Len(orders) + 1 /\ Placed.status = "PENDING"
\* the program takes a step from control point l and the step does not raise
\* (every step of the program changes pc; a step of the broker does not)
Does(l) == pc = l /\ pc' \notin {l, "crashed"}
\* p is x rounded to the cent
RoundedToCent(p, x) == p % Cent = 0 /\ 2 * Abs(p - x) <= Cent

\* the parts of C9 that do not depend on the price sent: the trail test, the
\* cancel before the replacement, and the record of the new stop
C9_TestCancelRecord ==
    /\ Does("h_quote")
         => /\ new_stop' = mid' - TRAIL_ATR_K * atr
            /\ (pc' = "trail_cancel") = (new_stop' > stop_price + MIN_PRICE_MOVE)
            /\ (pc' # "trail_cancel") => pc' = "fs_check"
    /\ (pc \in InLoop /\ pc' \in InLoop /\ pc # "trail_cancel")
         => stop_price' = stop_price /\ (pc # "trail_place" => stop_id' = stop_id)
    /\ Does("trail_cancel")
         => /\ pc' = "trail_place"
            /\ Len(orders') = Len(orders)
            /\ \/ orders' = orders
               \/ orders'[stop_id].status = "CANCELLED"
    /\ Does("trail_place")
         => /\ pc' = "fs_check"
            /\ PlacesOne
            /\ Placed.type = "STOP"
            /\ Placed.quantity = quantity
            /\ stop_price' = new_stop
            /\ stop_id' = Len(orders')
            /\ pos2'.stopPrice = new_stop
            /\ pos2'.stopOrderId = stop_id'

\* C9 as stated: the stop moves iff candidate > stop + MIN_PRICE_MOVE; the old
\* stop is cancelled first, then a STOP for the same quantity is submitted at
\* the candidate price, and stop price and stop id are updated.
C9_TrailAtCandidate ==
    [][ /\ C9_TestCancelRecord
        /\ Does("trail_place") => Placed.price = new_stop
      ]_vars
\* C9 amended: as stated, except that the STOP is submitted at the candidate
\* rounded to the cent, while the recorded stop price is the candidate itself.
C9_TrailAtRoundedCandidate ==
    [][ /\ C9_TestCancelRecord
        /\ Does("trail_place")
             => RoundedToCent(Placed.price, new_stop)
      ]_vars
\* a trail move whose order went out at a price other than the recorded stop
C9_Witness ==
    /\ pc = "fs_check"
    /\ stop_id = Len(orders) /\ stop_id >= 3
    /\ orders[stop_id].type = "STOP"
    /\ orders[stop_id].price # stop_price
    /\ pos2.stopPrice = stop_price

\* the steps of the end-to-end scenario up to the failsafe order
C10_Steps ==
    /\ (Does("init_stop") /\ entry_price = 100000 /\ atr = 2000)
         => /\ PlacesOne /\ Placed.type = "STOP" /\ Placed.price = 98000
            /\ pos2'.stopPrice = 98000
    /\ (Does("h_quote") /\ atr = 2000 /\ stop_price = 98000
          /\ mid' = 103000)
         => new_stop' = 101000 /\ pc' = "trail_cancel"
    /\ (Does("trail_place") /\ new_stop = 101000)
         => stop_price' = 101000 /\ pos2'.stopPrice = 101000
            /\ Placed.price = 101000
    /\ (Does("h_quote") /\ atr = 2000 /\ stop_price = 101000
          /\ mid' = 100400)
         => pc' = "fs_check"
    /\ (Does("fs_check") /\ stop_price = 101000 /\ mid = 100400)
         => pc' = "fs_cancel"
    /\ Does("fs_place")
         => PlacesOne /\ Placed.type = "MARKET" /\ Placed.quantity = quantity
\* the failsafe order of that scenario is seen FILLED at 100.40
C10_Fill ==
    /\ Does("fs_poll")
    /\ h_entry_price = 100000
    /\ orders[sell_id].status = "FILLED" /\ orders[sell_id].avgPrice = 100400

C2_AccumulatesIntoMain ==
    [][Does("h_return") => daily_pnl' = daily_pnl + pnl]_vars

\* C3: once the positions closed during the current day have realized PnL
\* summing to at most -DAILY_LOSS_LIMIT, main has no entry order submitted
\* or about to be submitted until the date changes.
C3_NoEntryAfterDailyLoss ==
    (realized <= -DAILY_LOSS_LIMIT /\ today = current_day)
        => pc \notin {"buy_place", "buy_poll", "buy_sleep", "init_stop"}

\* the orders placed for the position that is open now (after its entry buy)
PositionOrders == (buy_id + 1)..Len(orders)
StopPlaced == \E i \in PositionOrders : orders[i].type = "STOP"
StopFilled ==
    \E i \in PositionOrders : orders[i].type = "STOP" /\ orders[i].status = "FILLED"
ExitFilled == \E i \in PositionOrders : orders[i].status = "FILLED"
StopResting ==
    \E i \in PositionOrders : orders[i].type = "STOP" /\ orders[i].status = "PENDING"

\* C5: from the first stop until the position is closed a STOP order of the
\* position is resting at the broker in every state, except between the cancel
\* and the replacement of a trail move; also after the broker ended the stop
\* and after a gateway call failed.
C5_StopAlwaysResting ==
    (/\ StopPlaced
     /\ ~ExitFilled
     /\ pc \in InLoop \cup {"h_enter", "crashed"}
     /\ pc # "trail_place")
        => StopResting

\* C6: if a STOP order of the position is FILLED at the broker during the
\* call, the controller eventually returns (or a gateway call raises).
C6_StopFillObserved ==
    (pc \in InLoop /\ StopFilled) ~> (pc \in {"h_return", "returned", "crashed"})

\* C7: a wait loop is left at the first poll that reports CANCELLED, REJECTED
\* or EXPIRED: the program never sleeps towards another poll of that order.
C7_WaitStopsOnTerminal ==
    /\ pc = "buy_sleep" => st \notin NonFill
    /\ pc = "fs_sleep" => st2 \notin NonFill

\* what one scalp cycle that did not raise has placed
ScPlaced(side) == sc_orders' = Append(sc_orders, side)
\* C8 as stated: BUY iff ask <= 0.998 * last, SELL iff bid >= 1.002 * last,
\* never both, nothing otherwise.
C8_DecideIndependently ==
    [][(sc_pc = "decide" /\ sc_pc' = "sleep")
         => ( /\ ScPlaced("BUY") = (PerMille * quote.ask <= 998 * quote.last)
              /\ ScPlaced("SELL") = (PerMille * quote.bid >= 1002 * quote.last)
              /\ ~(ScPlaced("BUY") /\ ScPlaced("SELL"))
              /\ (ScPlaced("BUY") \/ ScPlaced("SELL") \/ sc_orders' = sc_orders) )]_vars
\* C8 amended: BUY iff ask <= 0.998 * last; SELL iff bid >= 1.002 * last and
\* not ask <= 0.998 * last; never both, nothing otherwise.
C8_DecideBuyFirst ==
    [][(sc_pc = "decide" /\ sc_pc' = "sleep")
         => ( /\ ScPlaced("BUY") = (PerMille * quote.ask <= 998 * quote.last)
              /\ ScPlaced("SELL") = ( /\ PerMille * quote.bid >= 1002 * quote.last
                                      /\ PerMille * quote.ask > 998 * quote.last )
              /\ ~(ScPlaced("BUY") /\ ScPlaced("SELL"))
              /\ (ScPlaced("BUY") \/ ScPlaced("SELL") \/ sc_orders' = sc_orders) )]_vars
\* a cycle that bought on a crossed quote meeting both bands, ask exactly on
\* the buy band
C8_Witness ==
    /\ sc_pc = "sleep"
    /\ quote.last > 0
    /\ PerMille * quote.ask = 998 * quote.last
    /\ PerMille * quote.bid >= 1002 * quote.last
    /\ sc_orders = <<"BUY">>

\* what the broker receives of an order: the JSON body of the POST, which is
\* the record without the fields the broker adds
Request(o) == [type |-> o.type, quantity |-> o.quantity, price |-> o.price]

\* C11: the order the failsafe submits is a MARKET order for the full
\* quantity whose request differs (by a sell side) from the request of the
\* Compound entry buy of the same position.
C11_FailsafeIsASell ==
    [][Does("fs_place")
         => /\ PlacesOne
            /\ Placed.type = "MARKET"
            /\ Placed.quantity = quantity
            /\ Request(Placed) # Request(orders[buy_id])
      ]_vars

\* control points at which the next statement calls the gateway: positions,
\* quote, cash, order placement and order status
GatewayCalls == {"get_position", "get_price", "compound_cash", "buy_place",
                 "buy_poll", "init_stop", "existing_stop", "h_quote",
                 "trail_place", "fs_place", "fs_poll", "stop_status"}

\* C12: no failure of a gateway call made by the trading loop ends the
\* process: whatever the call does, the program goes on to a later step.
C12_GatewayFailureSurvived ==
    [][(pc \in GatewayCalls => pc' # "crashed")]_vars

\* C13: in handle_trailing_and_failsafe a failed quote fetch, order placement
\* or status poll ends the run at once (the exception leaves the function and
\* nothing runs after it): a placement step that placed nothing is the last
\* step, and from every control point of the loop the only successors are
\* those of the normal flow or the end of the run.  A cancel never ends the
\* run: it is followed by the replacement stop or by the failsafe order,
\* whether or not the order was cancelled.
C13_ErrorsPropagate ==
    [][ /\ (pc \in {"trail_place", "fs_place"} /\ pc' # pc /\ orders' = orders)
             => pc' = "crashed"
        /\ (pc = "h_quote" /\ pc' # pc)
             => pc' \in {"trail_cancel", "fs_check", "crashed"}
        /\ (pc = "trail_place" /\ pc' # pc) => pc' \in {"fs_check", "crashed"}
        /\ (pc = "fs_place" /\ pc' # pc) => pc' \in {"fs_poll", "crashed"}
        /\ (pc = "fs_poll" /\ pc' # pc)
             => pc' \in {"h_return", "fs_sleep", "crashed"}
        /\ (pc = "stop_status" /\ pc' # pc)
             => pc' \in {"h_return", "h_quote", "crashed"}
        /\ (pc = "trail_cancel" /\ pc' # pc) => pc' = "trail_place"
        /\ (pc = "fs_cancel" /\ pc' # pc) => pc' = "fs_place"
        /\ pc = "crashed" => vars' = vars
      ]_vars
\* a run that ended by an exception after a trail move whose cancel had
\* failed (the old stop was already filled) and was ignored
C13_Witness ==
    /\ pc = "crashed"
    /\ Len(orders) = 3
    /\ orders[2].type = "STOP" /\ orders[2].status = "FILLED"
    /\ orders[3].type = "STOP" /\ stop_id = 3

\* the orders placed for the position that entry buy e opened: those after e
\* and before the next entry buy
ExitsOf(e) ==
    {i \in (e + 1)..Len(orders) : \A f \in entries : f > e => i < f}
\* the position entry buy e opened is open: e is filled and none of the
\* orders placed for that position is
Open(e) ==
    /\ orders[e].status = "FILLED"
    /\ \A i \in ExitsOf(e) : orders[i].status # "FILLED"
OpenPositions == {e \in entries : Open(e)}

\* C14: while an entry buy is submitted or waited for, no position opened by
\* an earlier entry buy of the bot is open; at most one position opened by
\* the bot is open in any state.
C14_OnePositionAtATime ==
    /\ Cardinality(OpenPositions) <= 1
    /\ pc \in {"buy_poll", "buy_sleep"} => OpenPositions \subseteq {buy_id}
\* a second entry buy, submitted after the first position was closed by its
\* stop
C14_Witness ==
    /\ pc = "buy_poll"
    /\ entries = {1, 3}
    /\ orders[1].status = "FILLED"
    /\ orders[2].type = "STOP" /\ orders[2].status = "FILLED"
    /\ orders[3].status = "PENDING"

\* C15: the simple scalp loop never submits a BUY while the quantity bought
\* by an earlier BUY has not been sold: of two consecutive orders of a run
\* the second is not a BUY following a BUY.
C15_NoBuyWhileLong ==
    \A i \in 1..(Len(sc_orders) - 1) :
        ~(sc_orders[i] = "BUY" /\ sc_orders[i + 1] = "BUY")

\* C16: main submits an order only in a cycle whose three gates were passed
\* (daily_pnl > -DAILY_LOSS_LIMIT, ATR >= MIN_ATR_EUR, ask - bid <=
\* MAX_SPREAD_EUR), and each gate lets the cycle go on exactly then: an ATR
\* equal to MIN_ATR_EUR and a spread equal to MAX_SPREAD_EUR do not block.
C16_GatesBlockOrders ==
    [][ /\ (PlacesOne /\ pc \in {"buy_place", "init_stop", "existing_stop"})
             => /\ daily_pnl > -DAILY_LOSS_LIMIT
                /\ atr >= MIN_ATR_EUR
                /\ px.ask - px.bid <= MAX_SPREAD_EUR
        /\ Does("loop_top") => daily_pnl' > -DAILY_LOSS_LIMIT
        /\ (Does("check_bars") /\ last_bar_time' # last_bar_time)
             => ((pc' = "get_position") = (atr' >= MIN_ATR_EUR))
        /\ Does("get_price")
             => ((pc' # "loop_top") = (px'.ask - px'.bid <= MAX_SPREAD_EUR))
      ]_vars
\* an entry buy submitted in a cycle with the ATR and the spread exactly at
\* their limits
C16_Witness ==
    /\ pc = "buy_poll"
    /\ Len(orders) = 1
    /\ atr = MIN_ATR_EUR
    /\ px.ask - px.bid = MAX_SPREAD_EUR

\* C17: Basic mode, in a cycle that passed the gates: with a red latest bar
\* whose drop is at least SELL_ATR_K * ATR and a held quantity > 0, main goes
\* into the Basic block and from its red-candle test on to the MARKET sell
\* (which the limit buy-back and the position controller follow).
C17_BasicSellsHeldPosition ==
    [][ /\ ( /\ Does("basic") /\ MODE_BASIC
             /\ latest_bar.close < latest_bar.open
             /\ latest_bar.open - latest_bar.close >= SELL_ATR_K * atr
             /\ qty.n > 0 )
             => pc' = "basic_candle"
        /\ ( /\ Does("basic_candle")
             /\ latest_bar.close < latest_bar.open
             /\ latest_bar.open - latest_bar.close >= SELL_ATR_K * atr
             /\ qty.n > 0 )
             => pc' = "sell_place"
      ]_vars

\* C18: with MODE_COMPOUND and MODE_BASIC both enabled no cycle enters the
\* Basic block: its red-candle test is never evaluated and its sell never
\* reached, whatever the position and the cash are.
C18_CompoundExcludesBasic ==
    (MODE_COMPOUND /\ MODE_BASIC) => pc \notin {"basic_candle", "sell_place"}

\* C19: the Compound block runs only with MODE_COMPOUND and no position; its
\* quantity is cash / ask (0 when ask <= 0); the MARKET buy is submitted
\* exactly when quantity * ask >= MIN_ATR_EUR, so never with quantity 0 or
\* ask <= 0, and for that quantity; once the buy is seen FILLED the stop is
\* placed and the position controller started for the same quantity.
C19_CompoundBuy ==
    [][ /\ Does("compound_cash")
             => /\ MODE_COMPOUND /\ DOMAIN pos = {}
                /\ IF px.ask > 0
                   THEN \E c \in CashValues :
                           est_qty'.n * px.ask = c * est_qty'.d
                   ELSE est_qty'.n = 0
                /\ (pc' = "buy_place")
                     = (est_qty'.n * px.ask >= MIN_ATR_EUR * est_qty'.d)
        /\ Does("buy_place")
             => /\ MODE_COMPOUND /\ DOMAIN pos = {}
                /\ PlacesOne /\ Placed.type = "MARKET"
                /\ Placed.quantity = est_qty
                /\ est_qty.n > 0 /\ px.ask > 0
        /\ (Does("buy_poll") /\ orders[buy_id].status = "FILLED")
             => pc' = "init_stop"
        /\ Does("init_stop")
             => /\ orders[buy_id].status = "FILLED"
                /\ PlacesOne /\ Placed.type = "STOP"
                /\ Placed.quantity = orders[buy_id].quantity
                /\ pos2'.quantity = orders[buy_id].quantity
                /\ pc' = "h_enter"
        /\ (Does("h_enter") /\ ret = "compound")
             => quantity' = orders[buy_id].quantity
      ]_vars
\* the controller started on a Compound position of a fractional quantity,
\* the buy and the stop being for that quantity
C19_Witness ==
    /\ pc = "h_quote" /\ ret = "compound"
    /\ Len(orders) = 2
    /\ orders[1].type = "MARKET" /\ orders[1].status = "FILLED"
    /\ orders[2].type = "STOP"
    /\ quantity.d > 1
    /\ orders[1].quantity = quantity /\ orders[2].quantity = quantity

\* the part of C20 about an entry that ended unfilled: the poll that reports
\* CANCELLED, REJECTED or EXPIRED ends the cycle, nothing is placed
C20_UnfilledEntry ==
    (Does("buy_poll") /\ orders[buy_id].status \in NonFill)
        => pc' = "loop_top" /\ orders' = orders
\* main is at the stop and the call that follow an entry buy seen FILLED
C20_AfterFilledEntry ==
    /\ pc = "init_stop"
    /\ buy_id \in entries
    /\ orders[buy_id].status = "FILLED"
    /\ entry_price = orders[buy_id].avgPrice

C21_FirstStopRecorded ==
    /\ Does("init_stop")
         => /\ orders[buy_id].status = "FILLED"
            /\ entry_price = orders[buy_id].avgPrice
            /\ PlacesOne /\ Placed.type = "STOP"
            /\ Placed.quantity = orders[buy_id].quantity
            /\ pos2'.quantity = orders[buy_id].quantity
            /\ pos2'.entryPrice = entry_price
            /\ pos2'.stopPrice = entry_price - STOP_ATR_K * atr
            /\ pos2'.stopOrderId = Len(orders')
            /\ pc' = "h_enter"
    /\ Does("h_enter")
         => /\ stop_price' = pos2.stopPrice
            /\ stop_id' = pos2.stopOrderId
            /\ orders[stop_id'].type = "STOP"
            /\ orders[stop_id'].quantity = quantity'
            /\ pc' = "h_quote"
    /\ (pc # "h_quote" /\ pc' = "h_quote") => pc \in {"h_enter", "stop_status"}

\* C21 as stated: when a position is opened the first stop is submitted
\* before the first trailing iteration, for the full filled quantity, at
\* entry fill price - STOP_ATR_K * ATR, and the record handed to the
\* controller holds that stop price and the id of that order.
C21_FirstStopAtInitialStop ==
    [][ /\ C21_FirstStopRecorded
        /\ Does("init_stop") => Placed.price = entry_price - STOP_ATR_K * atr
      ]_vars
\* C21 amended: the same, except that the order is submitted at
\* entry fill price - STOP_ATR_K * ATR rounded to the cent, while the record
\* holds the unrounded price.
C21_FirstStopAtRoundedInitialStop ==
    [][ /\ C21_FirstStopRecorded
        /\ Does("init_stop")
             => RoundedToCent(Placed.price, entry_price - STOP_ATR_K * atr)
      ]_vars
\* the call about to start on a record whose stop price is not the price of
\* the stop order it names
C21_Witness ==
    /\ pc = "h_enter" /\ ret = "compound"
    /\ Len(orders) = 2
    /\ pos2.stopOrderId = 2
    /\ orders[2].type = "STOP" /\ orders[2].status = "PENDING"
    /\ orders[2].price # pos2.stopPrice
    /\ pos2.stopPrice = orders[1].avgPrice - STOP_ATR_K * atr

\* the True Range of row i >= 2: max(high - low, |high - prevClose|,
\* |low - prevClose|)
TrueRange(b, i) ==
    Max2(b[i].high - b[i].low, Max2(Abs(b[i].high - b[i - 1].close),
                                    Abs(b[i].low - b[i - 1].close)))
RECURSIVE SumTrueRange(_, _, _)
SumTrueRange(b, from, to) ==
    IF from > to THEN 0 ELSE TrueRange(b, from) + SumTrueRange(b, from + 1, to)

\* C22: compute_atr(bars, period) returns 0 and does not raise when given
\* fewer than period + 1 bars, also when given exactly period bars, as main
\* gives it; with at least period + 1 bars it returns the mean of the last
\* period True Range values.
C22_ComputeAtr ==
    /\ atr_pc = "done"
         => IF Len(df2) < period + 1
            THEN atr_ret = [raised |-> FALSE, atr |-> Zero]
            ELSE /\ ~atr_ret.raised
                 /\ atr_ret.atr.n * period
                      = atr_ret.atr.d
                          * SumTrueRange(df2, Len(df2) - period + 1, Len(df2))
    /\ atr_pc = "done_main" => atr_ret = [raised |-> FALSE, atr |-> Zero]

\* C23: a bar fetch that fails, or returns fewer than ATR_PERIOD + 1 bars
\* (also none), ends the cycle: no order is submitted, nothing is raised,
\* daily_pnl and last_bar_time keep their values, and main sleeps and starts
\* its next cycle.
C23_TooFewBarsSkipsCycle ==
    [][ /\ (pc = "fetch_bars" /\ pc' # pc)
             => /\ pc' \in {"check_bars", "loop_top"}
                /\ orders' = orders
                /\ daily_pnl' = daily_pnl
                /\ last_bar_time' = last_bar_time
        /\ (pc = "check_bars" /\ pc' # pc /\ df_len < ATR_PERIOD + 1)
             => /\ pc' = "loop_top"
                /\ orders' = orders
                /\ daily_pnl' = daily_pnl
                /\ last_bar_time' = last_bar_time
      ]_vars
\* a cycle that ended on exactly ATR_PERIOD bars, after an earlier cycle had
\* seen a bar
C23_Witness ==
    /\ pc = "loop_top"
    /\ df_len = ATR_PERIOD
    /\ last_bar_time = 1
    /\ orders = <<>>

\* C28: last_bar_time never decreases; a latest bar whose timestamp is
\* <= last_bar_time ends the cycle with no order, no position fetch and no new
\* ATR; the ATR gate and the entry policies are reached only by a cycle whose
\* bar is strictly newer than every bar before, so at most once per timestamp.
C28_OncePerBar ==
    [][ /\ last_bar_time' >= last_bar_time
        /\ ( /\ Does("check_bars")
             /\ last_bar_time # NoBar
             /\ bar_time' # NoBar /\ bar_time' <= last_bar_time )
             => /\ pc' = "loop_top"
                /\ orders' = orders
                /\ last_bar_time' = last_bar_time
                /\ atr' = atr /\ pos' = pos
        /\ (pc # "get_position" /\ pc' = "get_position")
             => /\ pc = "check_bars"
                /\ last_bar_time' > last_bar_time
                /\ last_bar_time' = bar_time'
        /\ (pc \notin {"check_bars", "loop_top"} /\ pc' # "loop_top")
             => last_bar_time' = last_bar_time /\ atr' = atr
        /\ (pc = "check_bars" /\ atr' # atr) => last_bar_time' > last_bar_time
      ]_vars
\* a cycle that ended on a bar with the timestamp of the bar before
C28_Witness ==
    /\ pc = "loop_top"
    /\ bar_time # NoBar
    /\ bar_time = last_bar_time
    /\ atr = 0

\* the exit orders of the position (each is for the position's quantity)
\* that the broker has filled
FilledExits == {i \in PositionOrders : orders[i].status = "FILLED"}
RestingStops ==
    {i \in PositionOrders : orders[i].type = "STOP" /\ orders[i].status = "PENDING"}

\* C24: over the lifetime of one position the exit orders filled never exceed
\* its quantity: at most one exit order (a stop or the failsafe market sell)
\* is ever filled, and no stop order is resting once the failsafe sell has
\* been filled.
C24_ExitsWithinQuantity ==
    /\ \A i \in PositionOrders : orders[i].quantity = orders[buy_id].quantity
    /\ Cardinality(FilledExits) <= 1
    /\ (sell_id # NoOrder /\ orders[sell_id].status = "FILLED")
         => RestingStops = {}

\* C25: at every point of handle_trailing_and_failsafe at most one STOP order
\* of the position is resting at the broker, also after a cancel_order call of
\* a trail move failed and the failure was ignored.
C25_OneRestingStop ==
    pc \in InLoop => Cardinality(RestingStops) <= 1

\* C26: with atr > 0, mid > 0 and GAP_FAILSAFE_MULT < 1 no iteration both
\* moves the stop and fires the failsafe: an iteration that moved the stop
\* comes to the failsafe test with mid > GAP_FAILSAFE_MULT * stop_price and
\* goes on to poll the stop; the failsafe fires only on a stop that is not
\* the candidate of its iteration.
C26_NoMoveAndFailsafe ==
    [][ /\ Does("trail_cancel")
             => pc' = "trail_place" /\ mid' = mid /\ stop_price' = new_stop
        /\ Does("trail_place")
             => /\ atr > 0 /\ mid > 0 /\ GAP_FAILSAFE_MULT < PerMille
                /\ pc' = "fs_check" /\ mid' = mid /\ stop_price' = stop_price
                /\ PerMille * mid' > GAP_FAILSAFE_MULT * stop_price'
        /\ (Does("fs_check") /\ PerMille * mid > GAP_FAILSAFE_MULT * stop_price)
             => pc' = "stop_status"
        /\ (Does("fs_check") /\ pc' = "fs_cancel")
             => /\ stop_price # new_stop
                /\ ~(new_stop > stop_price + MIN_PRICE_MOVE)
      ]_vars
\* an iteration that moved the stop, passed the failsafe test and polls the
\* new stop
C26_Witness ==
    /\ pc = "stop_status"
    /\ stop_id >= 3 /\ stop_id = Len(orders)
    /\ stop_price = new_stop
    /\ stop_price = mid - TRAIL_ATR_K * atr

\* C27: throughout one run of handle_trailing_and_failsafe the ATR, the entry
\* price and the quantity keep the values of the hand-off: the locals are
\* bound from the record and never assigned again, every stop order and the
\* failsafe market order are for that quantity, and every trail candidate is
\* mid - TRAIL_ATR_K * ATR with that ATR.
C27_FrameOfTheCall ==
    [][ /\ atr' = atr
        /\ Does("h_enter")
             => /\ quantity' = pos2.quantity
                /\ h_entry_price' = pos2.entryPrice
        /\ (pc \in InLoop /\ pc' # "returned")
             => /\ quantity' = quantity
                /\ h_entry_price' = h_entry_price
                /\ pos2'.quantity = quantity
                /\ pos2'.entryPrice = h_entry_price
        /\ Does("trail_place")
             => PlacesOne /\ Placed.type = "STOP" /\ Placed.quantity = quantity
        /\ Does("fs_place")
             => PlacesOne /\ Placed.type = "MARKET" /\ Placed.quantity = quantity
        /\ Does("h_quote") => new_stop' = mid' - TRAIL_ATR_K * atr
      ]_vars
\* a failsafe order placed after a trail move, each order of the position
\* being for the fractional quantity of the hand-off
C27_Witness ==
    /\ pc = "fs_poll"
    /\ Len(orders) = 4 /\ sell_id = 4
    /\ quantity.d > 1
    /\ orders[2].quantity = quantity
    /\ orders[3].type = "STOP" /\ orders[3].quantity = quantity
    /\ orders[4].type = "MARKET" /\ orders[4].quantity = quantity

\* C29: when main finds an open position reported by the broker (quantity
\* and avgEntryPrice, no recorded stop) in a cycle that passed the gates, it
\* places a stop at avgEntryPrice - STOP_ATR_K * ATR (as sent, to the cent)
\* for the held quantity and then runs the controller on that position
\* without raising an error: the call binds its locals and starts its loop.
C29_ExistingPositionHandled ==
    [][ /\ (Does("existing_stop") /\ "stopPrice" \notin DOMAIN pos)
             => /\ PlacesOne /\ Placed.type = "STOP"
                /\ Placed.quantity = pos.quantity
                /\ RoundedToCent(Placed.price,
                                 pos.avgEntryPrice - STOP_ATR_K * atr)
                /\ pc' = "h_enter"
        /\ (pc = "h_enter" /\ ret = "existing" /\ pc' # pc) => pc' = "h_quote"
      ]_vars

\* C30: an interrupt or an error that ends the process cancels nothing: the
\* step that ends the process leaves every order as it was, nothing happens
\* after it, and the only steps of the program that cancel an order are the
\* cancel of a trail move and the cancel of the failsafe branch, each on the
\* current stop; so a stop resting when the process ends is left resting.
C30_StopSurvivesTheProcess ==
    [][ /\ (pc # "crashed" /\ pc' = "crashed") => orders' = orders
        /\ pc = "crashed" => vars' = vars
        /\ \A i \in 1..Len(orders) :
             (pc' # pc /\ orders'[i].status # orders[i].status)
                => /\ pc \in {"trail_cancel", "fs_cancel"}
                   /\ i = stop_id
                   /\ orders'[i].status = "CANCELLED"
      ]_vars
\* the process has ended during a run of the controller after a trail move,
\* with the replacement stop resting at the broker
C30_Witness ==
    /\ pc = "crashed"
    /\ stop_id = 3 /\ orders[3].type = "STOP"
    /\ Resting(stop_id)

====
